---- MODULE Spec2Model ----
(***************************************************************************)
(* Model of src/src/components/BrachistochroneDemo.tsx: the React          *)
(* component's state, its control handlers, the animation effect and the   *)
(* frame callback drawFrame.                                               *)
(*                                                                         *)
(* Units.  Wall-clock time and timestamps are milliseconds.  The speed     *)
(* and the cycloid parameter are tenths (the sliders step by 0.1).         *)
(* Elapsed time and curve times are 1/10000 s, so that                     *)
(* deltaTime / 1000 * animationSpeed is the integer deltaTime * speed.     *)
(* Progress is per-mille, positions and distances are 1/10000.             *)
(*                                                                         *)
(* React.  State updates made by one handler or one frame callback are     *)
(* batched into one render; when a dependency of the effect changed, the   *)
(* effect's cleanup and the effect run as part of the same step.  A        *)
(* drawFrame the effect calls synchronously may set state again, which     *)
(* renders again: a step runs to the fixpoint.  The renders committed on   *)
(* the way are kept in the history, h.shown, as what the list displayed.   *)
(*                                                                         *)
(* Arithmetic is exact fixed point; floating-point rounding is not         *)
(* modelled.                                                               *)
(***************************************************************************)
EXTENDS Integers, Sequences, FiniteSets, TLC

VARIABLES
    mounted,             \* the component is mounted
    animationState,      \* 'idle' | 'running' | 'paused'           (line 30)
    animationSpeed,      \* tenths                                   (line 31)
    cycloidParameter,    \* tenths                                   (line 32)
    elapsedTimes,        \* label -> time.toFixed(2), centiseconds   (line 33)
    rankings,            \* sequence of labels                       (line 34)
    prevRankings,        \* sequence of labels                       (line 35)
    startTimeRef,        \* ms or Null                               (line 36)
    isAnimationComplete, \*                                          (line 37)
    pausedElapsedTime,   \* 1/10000 s                                (line 38)
    lastTimestampRef,    \* ms or Null                               (line 39)
    distanceToEnd,       \* label -> distance, 1/10000               (line 40)
    animationFrameId,    \* the current effect's handle, 0: unset    (line 89)
    frames,              \* requested animation frames not yet run or cancelled
    now,                 \* wall clock, ms
    h                    \* history of the last step, for stating the properties

vars == <<mounted, animationState, animationSpeed, cycloidParameter, elapsedTimes,
          rankings, prevRankings, startTimeRef, isAnimationComplete,
          pausedElapsedTime, lastTimestampRef, distanceToEnd, animationFrameId,
          frames, now, h>>

----------------------------------------------------------------------------
(* Bounds of the model *)

\* How many times the wall clock advances (by a frame gap or a wait).
MaxClockSteps == 6

\* Gaps between two frames, and waits, in ms.
FrameGaps == {1000}

\* Positions of the speed slider the model tries (tenths; the slider has 0.1 .. 2).
SpeedChoices == {5, 10}

\* Positions of the cycloid parameter slider the model tries (tenths; 0 .. 1).
CycloidChoices == {0, 2, 10}

----------------------------------------------------------------------------
(* Values *)

Null == 0 - 1

NoMap == [l \in {} |-> 0]

Labels == <<"Brachistochrone", "Straight Line", "Parabola", "Parametric Cycloid">>

LabelSet == {Labels[i] : i \in 1..Len(Labels)}

----------------------------------------------------------------------------
(* Math.sin, Math.cos, Math.sqrt in fixed point *)

\* sin(pi * t / 1000) * 10000 for t in 0..1000, by Bhaskara's formula
\* 16 t (1 - t) / (5 - 4 t (1 - t)); exact at t = 0, 1/2 and 1.
SinPi(t) ==
    LET u == t * (1000 - t)
    IN  (1600 * u) \div ((5000000 - 4 * u) \div 100)

\* cos(pi * t / 1000) * 10000 for t in 0..1000.
CosPi(t) == IF t <= 500 THEN SinPi(t + 500) ELSE 0 - SinPi(t - 500)

RECURSIVE Bisect(_, _, _)
Bisect(n, lo, hi) ==
    IF hi - lo <= 1 THEN lo
    ELSE LET mid == (lo + hi) \div 2
         IN  IF mid * mid <= n THEN Bisect(n, mid, hi) ELSE Bisect(n, lo, mid)

\* floor(sqrt(n)) for 0 <= n < 20000^2.
Sqrt(n) == Bisect(n, 0, 20000)

----------------------------------------------------------------------------
(* curves (useMemo, lines 45-74) *)

\* curve.time, 1/10000 s; c is the cycloid parameter in tenths.
CurveTime(label, c) ==
    CASE label = "Brachistochrone"    -> 20000
      [] label = "Straight Line"      -> 25000
      [] label = "Parabola"           -> 21000
      [] label = "Parametric Cycloid" -> 2000 * (10 + c)

\* curve.func(t): <<x, y>> in 1/10000, t per-mille.
CurveFunc(label, c, t) ==
    CASE label = "Brachistochrone" ->
            \* theta = t * pi, so (theta - sin(theta)) / pi = t - sin(pi t) / pi
            <<t * 10 - (SinPi(t) * 10000) \div 31416, (10000 - CosPi(t)) \div 2>>
      [] label = "Straight Line" ->
            <<t * 10, t * 10>>
      [] label = "Parabola" ->
            <<t * 10, (t * (2000 - t)) \div 100>>
      [] label = "Parametric Cycloid" ->
            <<t * 10 - (SinPi(t) * 10000) \div 31416,
              (10000 - CosPi(t)) \div 2 + (c * ((SinPi(t) * SinPi(t)) \div 10000)) \div 10>>

\* Math.max(...Object.values(curves).map(c => c.time))   (line 239)
MaxCurveTime(c) ==
    LET ts == {CurveTime(l, c) : l \in LabelSet}
    IN  CHOOSE m \in ts : \A x \in ts : x <= m

\* time.toFixed(2) + 's', as centiseconds   (line 233)
ToFixed2(time) == (time + 50) \div 100

----------------------------------------------------------------------------
(* The component as one record, so that handlers are operators on it *)

\* The values a render's effect and its drawFrame close over: the effect's
\* dependencies (line 257).  curves is a function of cycloidParameter.
Closure(w) ==
    [animationState      |-> w.animationState,
     pausedElapsedTime   |-> w.pausedElapsedTime,
     animationSpeed      |-> w.animationSpeed,
     cycloidParameter    |-> w.cycloidParameter,
     rankings            |-> w.rankings,
     isAnimationComplete |-> w.isAnimationComplete]

\* requestAnimationFrame: the handle is the least one not in use.
NewFrameId(w) ==
    CHOOSE i \in 1..(Cardinality(w.frames) + 1) : \A f \in w.frames : f.id # i

----------------------------------------------------------------------------
(* drawFrame (lines 168-246) *)

\* lines 169-172
InitRefs(w, timestamp) ==
    IF w.startTimeRef = Null
    THEN [w EXCEPT !.startTimeRef = timestamp, !.lastTimestampRef = timestamp]
    ELSE w

\* Mutant of ElapsedTime: the difference taken the wrong way round.
ElapsedTime_Reversed(cl, last, timestamp) ==
    IF cl.animationState = "running"
    THEN LET deltaTime == (IF last = Null \/ last = 0 THEN timestamp ELSE last) - timestamp
         IN  cl.pausedElapsedTime + deltaTime * cl.animationSpeed
    ELSE cl.pausedElapsedTime

\* lines 174-181; last is lastTimestampRef.current once lines 169-172 ran.
\* (last || timestamp): null and 0 both give timestamp.
ElapsedTime(cl, last, timestamp) ==
    IF cl.animationState = "running"
    THEN LET deltaTime == timestamp - (IF last = Null \/ last = 0 THEN timestamp ELSE last)
         IN  cl.pausedElapsedTime + deltaTime * cl.animationSpeed
    ELSE cl.pausedElapsedTime

\* Mutant of Progress: elapsedTime / curve.time without Math.min.
Progress_Unclamped(elapsedTime, time) == (elapsedTime * 1000) \div time

\* line 204: Math.min(elapsedTime / curve.time, 1), per-mille
Progress(elapsedTime, time) ==
    IF elapsedTime >= time THEN 1000 ELSE (elapsedTime * 1000) \div time

\* lines 205-206
Distance(label, c, progress) ==
    LET p == CurveFunc(label, c, progress)
    IN  Sqrt((10000 - p[1]) * (10000 - p[1]) + (10000 - p[2]) * (10000 - p[2]))

RECURSIVE DistanceFrom(_, _, _)
DistanceFrom(i, cl, elapsedTime) ==
    IF i > Len(Labels) THEN NoMap
    ELSE (Labels[i] :> Distance(Labels[i], cl.cycloidParameter,
                                Progress(elapsedTime, CurveTime(Labels[i], cl.cycloidParameter))))
         @@ DistanceFrom(i + 1, cl, elapsedTime)

\* lines 203-208: label -> distance, for every curve
DistanceData(cl, elapsedTime) == DistanceFrom(1, cl, elapsedTime)

\* Mutant of InsertByDistance: the comparator is b[2] - a[2], farthest first.
InsertByDistance_Descending(sorted, label, dist) ==
    LET k == Cardinality({i \in 1..Len(sorted) : dist[sorted[i]] >= dist[label]})
    IN  SubSeq(sorted, 1, k) \o <<label>> \o SubSeq(sorted, k + 1, Len(sorted))

\* One step of a stable sort: label goes behind every entry that is not farther.
InsertByDistance(sorted, label, dist) ==
    LET k == Cardinality({i \in 1..Len(sorted) : dist[sorted[i]] <= dist[label]})
    IN  SubSeq(sorted, 1, k) \o <<label>> \o SubSeq(sorted, k + 1, Len(sorted))

RECURSIVE SortFrom(_, _, _)
SortFrom(sorted, i, dist) ==
    IF i > Len(Labels) THEN sorted
    ELSE SortFrom(InsertByDistance(sorted, Labels[i], dist), i + 1, dist)

\* lines 211-214: progressData.sort((a, b) => a[2] - b[2]) is stable and starts
\* from Object.entries(curves), the order the curves are defined in.
NewRankings(dist) == SortFrom(<<>>, 1, dist)

\* Mutant of PublishRankings: the comparison of line 215 is missing.
PublishRankings_AlwaysArchives(w, cl, newRankings) ==
    [w EXCEPT !.prevRankings = cl.rankings, !.rankings = newRankings]

\* lines 215-218
PublishRankings(w, cl, newRankings) ==
    IF newRankings # cl.rankings
    THEN [w EXCEPT !.prevRankings = cl.rankings, !.rankings = newRankings]
    ELSE w

\* lines 220-226
PublishDistances(w, dist) ==
    [w EXCEPT !.distanceToEnd =
        [l \in (DOMAIN w.distanceToEnd) \cup LabelSet |->
            IF l \in LabelSet THEN dist[l] ELSE w.distanceToEnd[l]]]

\* lines 228-237
PublishElapsedTimes(w, cl) ==
    IF cl.isAnimationComplete
    THEN [w EXCEPT !.elapsedTimes =
            [l \in (DOMAIN w.elapsedTimes) \cup LabelSet |->
                IF l \in LabelSet THEN ToFixed2(CurveTime(l, cl.cycloidParameter))
                ELSE w.elapsedTimes[l]]]
    ELSE w

\* Mutant of FinishFrame: completion sets the flag without stopping the animation.
FinishFrame_StaysRunning(w, cl, elapsedTime, own) ==
    IF elapsedTime >= MaxCurveTime(cl.cycloidParameter)
    THEN [w EXCEPT !.isAnimationComplete = TRUE]
    ELSE IF cl.animationState = "running"
    THEN LET id == NewFrameId(w)
         IN  [w EXCEPT !.pausedElapsedTime = elapsedTime,
                       !.frames = @ \cup {[id |-> id, cl |-> cl, own |-> own]},
                       !.animationFrameId = IF own THEN id ELSE @]
    ELSE w

\* Mutant of FinishFrame: completion stops the animation without setting the flag.
FinishFrame_NoFlag(w, cl, elapsedTime, own) ==
    IF elapsedTime >= MaxCurveTime(cl.cycloidParameter)
    THEN [w EXCEPT !.animationState = "idle"]
    ELSE IF cl.animationState = "running"
    THEN LET id == NewFrameId(w)
         IN  [w EXCEPT !.pausedElapsedTime = elapsedTime,
                       !.frames = @ \cup {[id |-> id, cl |-> cl, own |-> own]},
                       !.animationFrameId = IF own THEN id ELSE @]
    ELSE w

\* lines 239-245.  own: the frame belongs to the effect that is current, whose
\* animationFrameId the assignment of line 244 writes.
FinishFrame(w, cl, elapsedTime, own) ==
    IF elapsedTime >= MaxCurveTime(cl.cycloidParameter)
    THEN [w EXCEPT !.animationState = "idle", !.isAnimationComplete = TRUE]
    ELSE IF cl.animationState = "running"
    THEN LET id == NewFrameId(w)
         IN  [w EXCEPT !.pausedElapsedTime = elapsedTime,
                       !.frames = @ \cup {[id |-> id, cl |-> cl, own |-> own]},
                       !.animationFrameId = IF own THEN id ELSE @]
    ELSE w

DrawFrame(w, cl, timestamp, own) ==
    LET w1 == InitRefs(w, timestamp)
        elapsedTime == ElapsedTime(cl, w1.lastTimestampRef, timestamp)
        w2 == IF cl.animationState = "running"
              THEN [w1 EXCEPT !.lastTimestampRef = timestamp] ELSE w1
        dist == DistanceData(cl, elapsedTime)
        w3 == PublishRankings(w2, cl, NewRankings(dist))
        w4 == PublishDistances(w3, dist)
        w5 == PublishElapsedTimes(w4, cl)
    IN  FinishFrame(w5, cl, elapsedTime, own)

----------------------------------------------------------------------------
(* The animation effect (lines 76-257) *)

\* Mutant of Cleanup: the effect returns no cleanup, the frame is not cancelled.
Cleanup_NoCancel(w) ==
    [w EXCEPT !.frames = {[f EXCEPT !.own = FALSE] : f \in @},
              !.animationFrameId = 0]

\* lines 254-256: cancelAnimationFrame(animationFrameId).  The next effect has
\* an animationFrameId of its own, unset; a frame that survived is no longer its.
Cleanup(w) ==
    [w EXCEPT !.frames = {[f EXCEPT !.own = FALSE] : f \in {g \in @ : g.id # w.animationFrameId}},
              !.animationFrameId = 0]

\* lines 248-249
RequestFrame(w, cl) ==
    LET id == NewFrameId(w)
    IN  [w EXCEPT !.frames = @ \cup {[id |-> id, cl |-> cl, own |-> TRUE]},
                  !.animationFrameId = id]

\* Mutant of EffectBody: the frame is requested whatever the animation state.
EffectBody_AlwaysRequests(w, cl) ==
    IF cl.animationState = "running"
    THEN RequestFrame(w, cl)
    ELSE DrawFrame(RequestFrame(w, cl), cl, w.now, TRUE)

\* lines 248-252: the effect body for the render that closes over cl.
EffectBody(w, cl) ==
    IF cl.animationState = "running"
    THEN RequestFrame(w, cl)
    ELSE DrawFrame(w, cl, w.now, TRUE)

\* React after a batch of state updates: ran is the closure the effect last ran
\* with.  When a dependency changed, the cleanup and the effect run, and again
\* for the state the effect's own drawFrame set.  The result is the sequence
\* of renders React commits: the state after each batch of updates.
RECURSIVE Renders(_, _)
Renders(w, ran) ==
    LET cl == Closure(w)
    IN  <<w>> \o (IF cl = ran THEN <<>> ELSE Renders(EffectBody(Cleanup(w), cl), cl))

\* The state React settles in.
Render(w, ran) == LET rs == Renders(w, ran) IN rs[Len(rs)]

\* A handler or frame callback that turned w into w2, then React.
Commit(w, w2) == Render(w2, Closure(w))

----------------------------------------------------------------------------
(* Handlers (lines 259-283, 327, 341) *)

\* Mutant of handleStartAnimation: the complete flag is left as it is.
handleStartAnimation_KeepsComplete(w) ==
    [w EXCEPT !.startTimeRef = Null,
              !.lastTimestampRef = Null,
              !.pausedElapsedTime = 0,
              !.animationState = "running",
              !.elapsedTimes = NoMap]

\* Mutant of handleStartAnimation: setElapsedTimes({}) is missing.
handleStartAnimation_KeepsElapsedTimes(w) ==
    [w EXCEPT !.startTimeRef = Null,
              !.lastTimestampRef = Null,
              !.pausedElapsedTime = 0,
              !.animationState = "running",
              !.isAnimationComplete = FALSE]

\* lines 259-266
handleStartAnimation(w) ==
    [w EXCEPT !.startTimeRef = Null,
              !.lastTimestampRef = Null,
              !.pausedElapsedTime = 0,
              !.animationState = "running",
              !.elapsedTimes = NoMap,
              !.isAnimationComplete = FALSE]

\* lines 268-270
handlePauseAnimation(w) == [w EXCEPT !.animationState = "paused"]

\* Mutant of handleResumeAnimation: the last timestamp is not cleared.
handleResumeAnimation_KeepsTimestamp(w) == [w EXCEPT !.animationState = "running"]

\* lines 272-275
handleResumeAnimation(w) ==
    [w EXCEPT !.lastTimestampRef = Null, !.animationState = "running"]

\* lines 277-283
handleResetAnimation(w) ==
    [w EXCEPT !.startTimeRef = Null,
              !.lastTimestampRef = Null,
              !.pausedElapsedTime = 0,
              !.animationState = "idle",
              !.elapsedTimes = NoMap]

\* line 327
setAnimationSpeed(w, value) == [w EXCEPT !.animationSpeed = value]

\* Mutant of setCycloidParameter: a new shape restarts the elapsed time.
setCycloidParameter_Restarts(w, value) ==
    [w EXCEPT !.cycloidParameter = value, !.pausedElapsedTime = 0]

\* line 341
setCycloidParameter(w, value) == [w EXCEPT !.cycloidParameter = value]

\* lines 403-408: what the rankings list shows next to a label, the elapsed
\* time (centiseconds, '0.00s' when there is none) or the distance.
DisplayMetric(w, label) ==
    IF w.isAnimationComplete
    THEN [kind |-> "time",
          value |-> IF label \in DOMAIN w.elapsedTimes /\ w.elapsedTimes[label] # 0
                    THEN w.elapsedTimes[label] ELSE 0]
    ELSE [kind |-> "distance", value |-> w.distanceToEnd[label]]

\* Array.prototype.indexOf: the 0-based position of label, -1 when absent.
IndexOf(list, label) ==
    IF \E i \in 1..Len(list) : list[i] = label
    THEN (CHOOSE i \in 1..Len(list) :
              list[i] = label /\ \A j \in 1..(i - 1) : list[j] # label) - 1
    ELSE 0 - 1

\* lines 409-426: the arrow next to the label at the 0-based position index of
\* the rankings list.
RankArrow(w, label, index) ==
    IF ~w.isAnimationComplete /\ IndexOf(w.prevRankings, label) # index
    THEN IF IndexOf(w.prevRankings, label) > index THEN "up" ELSE "down"
    ELSE "none"

\* A frame callback the browser runs: it leaves the queue, then drawFrame.
RunFrame(w, f, timestamp) ==
    DrawFrame([w EXCEPT !.frames = @ \ {f}], f.cl, timestamp, f.own)

----------------------------------------------------------------------------
(* The state machine *)

\* The component's state as one record.
W ==
    [animationState      |-> animationState,
     animationSpeed      |-> animationSpeed,
     cycloidParameter    |-> cycloidParameter,
     elapsedTimes        |-> elapsedTimes,
     rankings            |-> rankings,
     prevRankings        |-> prevRankings,
     startTimeRef        |-> startTimeRef,
     isAnimationComplete |-> isAnimationComplete,
     pausedElapsedTime   |-> pausedElapsedTime,
     lastTimestampRef    |-> lastTimestampRef,
     distanceToEnd       |-> distanceToEnd,
     animationFrameId    |-> animationFrameId,
     frames              |-> frames,
     now                 |-> now]

Become(w) ==
    /\ animationState' = w.animationState
    /\ animationSpeed' = w.animationSpeed
    /\ cycloidParameter' = w.cycloidParameter
    /\ elapsedTimes' = w.elapsedTimes
    /\ rankings' = w.rankings
    /\ prevRankings' = w.prevRankings
    /\ startTimeRef' = w.startTimeRef
    /\ isAnimationComplete' = w.isAnimationComplete
    /\ pausedElapsedTime' = w.pausedElapsedTime
    /\ lastTimestampRef' = w.lastTimestampRef
    /\ distanceToEnd' = w.distanceToEnd
    /\ animationFrameId' = w.animationFrameId
    /\ frames' = w.frames
    /\ now' = w.now

\* useState / useRef initial values (lines 30-40), before the first effect.
Unrendered ==
    [animationState      |-> "idle",
     animationSpeed      |-> 5,
     cycloidParameter    |-> 2,
     elapsedTimes        |-> NoMap,
     rankings            |-> <<>>,
     prevRankings        |-> <<>>,
     startTimeRef        |-> Null,
     isAnimationComplete |-> FALSE,
     pausedElapsedTime   |-> 0,
     lastTimestampRef    |-> Null,
     distanceToEnd       |-> NoMap,
     animationFrameId    |-> 0,
     frames              |-> {},
     now                 |-> 1000]

\* No closure: the effect has not run yet.
NoClosure == [animationState |-> "unmounted"]

\* The component once mounted: the effect ran, and ran again for what it set.
Mounted == Render(Unrendered, NoClosure)

\* What a committed render puts in the rankings list (lines 376-426).
Shown(w) ==
    [isAnimationComplete |-> w.isAnimationComplete,
     cycloidParameter    |-> w.cycloidParameter,
     rankings            |-> w.rankings,
     prevRankings        |-> w.prevRankings,
     distanceToEnd       |-> w.distanceToEnd,
     arrow               |-> [i \in 1..Len(w.rankings) |->
                                 RankArrow(w, w.rankings[i], i - 1)],
     metric              |-> [l \in LabelSet |->
                                 IF l \in DOMAIN w.distanceToEnd \/ w.isAnimationComplete
                                 THEN DisplayMetric(w, l) ELSE [kind |-> "none", value |-> 0]]]

\* What the last step was, what it started from and what it rendered.
Hist(op, w, rs, advance) ==
    [op          |-> op,
     \* what the frames run since the last Start or Reset added up to
     ticked      |-> IF op \in {"Start", "Reset"} THEN 0 ELSE h.ticked + advance,
     \* the list as each render of the step showed it, the last render last
     shown       |-> [i \in 1..Len(rs) |-> Shown(rs[i])],
     \* animationState before the step
     from        |-> w.animationState,
     \* pausedElapsedTime when the run was last paused, Null when it was not
     pausedAt    |-> CASE op = "Pause" -> w.pausedElapsedTime
                      [] op \in {"Start", "Reset"} -> Null
                      [] OTHER -> h.pausedAt,
     \* the wall clock moved while Paused
     waited      |-> CASE op = "Wait" /\ w.animationState = "paused" -> TRUE
                      [] op \in {"Start", "Reset", "Pause"} -> FALSE
                      [] OTHER -> h.waited,
     \* frames run since the last resume, Null outside a resumed run
     resumedFrames |-> CASE op = "Resume" -> 0
                        [] op \in {"Start", "Reset", "Pause"} -> Null
                        [] op = "Tick" /\ h.resumedFrames \in {0, 1} -> h.resumedFrames + 1
                        [] OTHER -> h.resumedFrames]

\* The wall clock stops advancing here.
Horizon == Unrendered.now + MaxClockSteps * 1000

Init ==
    /\ mounted = TRUE
    /\ animationState = Mounted.animationState
    /\ animationSpeed = Mounted.animationSpeed
    /\ cycloidParameter = Mounted.cycloidParameter
    /\ elapsedTimes = Mounted.elapsedTimes
    /\ rankings = Mounted.rankings
    /\ prevRankings = Mounted.prevRankings
    /\ startTimeRef = Mounted.startTimeRef
    /\ isAnimationComplete = Mounted.isAnimationComplete
    /\ pausedElapsedTime = Mounted.pausedElapsedTime
    /\ lastTimestampRef = Mounted.lastTimestampRef
    /\ distanceToEnd = Mounted.distanceToEnd
    /\ animationFrameId = Mounted.animationFrameId
    /\ frames = Mounted.frames
    /\ now = Mounted.now
    /\ h = [op |-> "Mount", ticked |-> 0, shown |-> <<Shown(Mounted)>>, from |-> "idle", pausedAt |-> Null, waited |-> FALSE, resumedFrames |-> Null]

\* A step of the mounted component: a handler or callback, then React.
Step(op, w2) ==
    /\ \E rs \in {Renders(w2, Closure(W))} :
          /\ \E w \in {rs[Len(rs)]} : Become(w)
          /\ h' = Hist(op, W, rs, 0)
    /\ UNCHANGED mounted

\* The Start button, shown while idle (lines 349-353).
Start ==
    /\ mounted /\ animationState = "idle"
    /\ Step("Start", handleStartAnimation(W))

\* The Pause button, shown while running (lines 354-358).
Pause ==
    /\ mounted /\ animationState = "running"
    /\ Step("Pause", handlePauseAnimation(W))

\* The Resume button, shown while paused (lines 359-363).
Resume ==
    /\ mounted /\ animationState = "paused"
    /\ Step("Resume", handleResumeAnimation(W))

\* The Reset button, shown while not idle (lines 364-368).
Reset ==
    /\ mounted /\ animationState # "idle"
    /\ Step("Reset", handleResetAnimation(W))

\* The speed slider moves (lines 322-329).
SetSpeed ==
    /\ mounted
    /\ \E value \in SpeedChoices \ {animationSpeed} :
          Step("SetSpeed", setAnimationSpeed(W, value))

\* The cycloid parameter slider moves (lines 336-343).
SetCycloid ==
    /\ mounted
    /\ \E value \in CycloidChoices \ {cycloidParameter} :
          Step("SetCycloid", setCycloidParameter(W, value))

\* The browser runs a requested frame, gap ms after the last event.
Tick ==
    /\ mounted
    /\ \E f \in frames, gap \in FrameGaps :
          /\ now + gap <= Horizon
          /\ \E rs \in {Renders(RunFrame([W EXCEPT !.now = now + gap], f, now + gap),
                                  Closure(W))} :
                /\ \E w \in {rs[Len(rs)]} : Become(w)
                /\ h' = Hist("Tick", W, rs,
                             ElapsedTime(f.cl, InitRefs(W, now + gap).lastTimestampRef,
                                         now + gap) - f.cl.pausedElapsedTime)
          /\ UNCHANGED mounted

\* Wall-clock time passes while paused and nothing runs.
Wait ==
    /\ mounted /\ animationState = "paused"
    /\ \E gap \in FrameGaps :
          /\ now + gap <= Horizon
          /\ now' = now + gap
          /\ h' = Hist("Wait", W, <<>>, 0)
    /\ UNCHANGED <<mounted, animationState, animationSpeed, cycloidParameter,
                   elapsedTimes, rankings, prevRankings, startTimeRef,
                   isAnimationComplete, pausedElapsedTime, lastTimestampRef,
                   distanceToEnd, animationFrameId, frames>>

\* The component unmounts: the effect's cleanup runs (lines 254-256).
Unmount ==
    /\ mounted
    /\ mounted' = FALSE
    /\ Become(Cleanup(W))
    /\ h' = Hist("Unmount", W, <<>>, 0)

Next ==
    \/ Start
    \/ Pause
    \/ Resume
    \/ Reset
    \/ SetSpeed
    \/ SetCycloid
    \/ Tick
    \/ Wait
    \/ Unmount

Spec == Init /\ [][Next]_vars

----------------------------------------------------------------------------
(* Properties *)

\* C1: a run paused at pausedElapsedTime = e still has e after resume and after
\* the first frame that follows, whatever the wall clock did while paused.
C1_PauseResumeContinuity ==
    h.resumedFrames \in {0, 1} => pausedElapsedTime = h.pausedAt

\* The first frame after a resume ran, and the clock had moved while paused.
C1_Witness ==
    /\ h.op = "Tick" /\ h.resumedFrames = 1 /\ h.waited
    /\ h.pausedAt > 0 /\ animationState = "running"

\* C2: pausedElapsedTime is never negative; it grows only by a frame run while
\* running, and otherwise changes only to 0, by Start or Reset.
C2_ElapsedOnlyAdvancesRunning ==
    /\ [](pausedElapsedTime >= 0)
    /\ [][pausedElapsedTime' # pausedElapsedTime =>
            \/ /\ h'.op = "Tick" /\ animationState = "running"
               /\ pausedElapsedTime' > pausedElapsedTime
            \/ /\ h'.op \in {"Start", "Reset"}
               /\ pausedElapsedTime' = 0]_vars

\* A frame of a running animation advanced the elapsed time.
C2_Witness ==
    h.op = "Tick" /\ h.from = "running" /\ pausedElapsedTime > 0

\* The elapsed time the frame f computes when it runs at timestamp.
FrameElapsed(f, timestamp) ==
    ElapsedTime(f.cl, InitRefs(W, timestamp).lastTimestampRef, timestamp)

\* C3: the frame whose elapsed time reaches the longest curve time leaves the
\* animation idle with the complete flag set and no frame requested; the flag
\* is clear on a fresh mount; while the flag is set no frame is pending or runs.
C3_CompletionDetection ==
    /\ [](h.op = "Mount" => ~isAnimationComplete)
    /\ [](isAnimationComplete => animationState = "idle" /\ frames = {})
    /\ [][h'.op = "Tick" =>
            /\ ~isAnimationComplete
            /\ \A f \in frames :
                  FrameElapsed(f, now') >= MaxCurveTime(f.cl.cycloidParameter)
                  => /\ animationState' = "idle"
                     /\ isAnimationComplete'
                     /\ frames' = {}]_vars

\* A frame completed the run.
C3_Witness ==
    h.op = "Tick" /\ isAnimationComplete /\ animationState = "idle" /\ frames = {}

\* C4: after Reset or unmount no frame is pending, and a pending frame is always
\* the one the current effect requested for the current render: no frame
\* requested before a reset is left to run after it.
C4_ResetCancelsFrames ==
    /\ h.op \in {"Reset", "Unmount"} => frames = {}
    /\ frames # {} => mounted /\ animationState = "running"
    /\ \A f \in frames : f.cl = Closure(W) /\ f.own /\ f.id = animationFrameId

\* A running animation, which has a frame pending, was reset.
C4_Witness ==
    h.op = "Reset" /\ h.from = "running" /\ frames = {} /\ pausedElapsedTime = 0

\* What handleStartAnimation has to establish.
Started(w) ==
    /\ w.animationState = "running"
    /\ w.pausedElapsedTime = 0
    /\ w.lastTimestampRef = Null
    /\ ~w.isAnimationComplete
    /\ w.elapsedTimes = NoMap
    /\ Cardinality(w.frames) = 1
    /\ \A f \in w.frames : f.cl = Closure(w)

\* C5: starting, from whatever state the component is in, gives a running
\* animation with elapsed time 0, no last timestamp, the complete flag clear,
\* no elapsed times recorded and one frame requested.
C5_StartFromAnyState ==
    /\ mounted => Started(Commit(W, handleStartAnimation(W)))
    /\ h.op = "Start" => Started(W)

\* Start was pressed after an earlier run had reordered the rankings.
C5_Witness ==
    h.op = "Start" /\ rankings # Labels /\ prevRankings # <<>> /\ frames # {}

\* C6 as claimed: after Reset the component is idle with elapsed time 0 and is
\* in the state of a freshly mounted component (the wall-clock stamps the idle
\* redraw leaves in the refs, and the slider settings, aside), and a second
\* reset changes none of that.
ZeroedLikeFresh(w) ==
    /\ w.animationState = "idle"
    /\ w.pausedElapsedTime = 0
    /\ w.isAnimationComplete = Mounted.isAnimationComplete
    /\ w.elapsedTimes = Mounted.elapsedTimes
    /\ w.rankings = Mounted.rankings
    /\ w.prevRankings = Mounted.prevRankings
    /\ w.distanceToEnd = Mounted.distanceToEnd
    /\ w.frames = {}

C6_ResetZeroesLikeFresh ==
    h.op = "Reset" =>
        /\ ZeroedLikeFresh(W)
        /\ ZeroedLikeFresh(Commit(W, handleResetAnimation(W)))

\* C7 as claimed: after Reset nothing of the run's ranking snapshot is left.
C7_ResetClearsSnapshot ==
    h.op = "Reset" =>
        /\ rankings = Mounted.rankings
        /\ prevRankings = <<>>
        /\ distanceToEnd = Mounted.distanceToEnd
        /\ elapsedTimes = NoMap

\* C8: moving the cycloid parameter while running changes neither the elapsed
\* time nor the animation state nor the last timestamp, and no curve time but
\* the parametric cycloid's.
C8_ShapeWhileRunning ==
    [][h'.op = "SetCycloid" /\ animationState = "running" =>
          /\ animationState' = "running"
          /\ pausedElapsedTime' = pausedElapsedTime
          /\ lastTimestampRef' = lastTimestampRef
          /\ \A l \in LabelSet \ {"Parametric Cycloid"} :
                CurveTime(l, cycloidParameter') = CurveTime(l, cycloidParameter)
          /\ CurveTime("Parametric Cycloid", cycloidParameter')
                # CurveTime("Parametric Cycloid", cycloidParameter)]_vars

\* The parameter moved in the middle of a running animation.
C8_Witness ==
    /\ h.op = "SetCycloid" /\ h.from = "running"
    /\ animationState = "running" /\ pausedElapsedTime > 0

\* The list shows, for every label, the formatted time of that curve.
ShowsFrozenTimes(shown) ==
    \A l \in LabelSet :
        shown.metric[l] =
            [kind |-> "time", value |-> ToFixed2(CurveTime(l, shown.cycloidParameter))]

\* C9 as claimed: whenever the complete flag is set, in the state the component
\* settles in and in every render on the way to it, elapsedTimes holds for every
\* label the formatted time of that curve and the rankings list shows it.
C9_FrozenTimesWhenComplete ==
    /\ isAnimationComplete =>
          /\ \A l \in LabelSet :
                /\ l \in DOMAIN elapsedTimes
                /\ elapsedTimes[l] = ToFixed2(CurveTime(l, cycloidParameter))
          /\ ShowsFrozenTimes(Shown(W))
    /\ \A i \in 1..Len(h.shown) :
          h.shown[i].isAnimationComplete => ShowsFrozenTimes(h.shown[i])

\* C10 as claimed: once the run is complete, an entry of elapsedTimes keeps its
\* value until the next Start or Reset.
C10_FrozenTimesNeverOverwritten ==
    [][isAnimationComplete /\ h'.op \notin {"Start", "Reset"} =>
          \A l \in DOMAIN elapsedTimes :
              l \in DOMAIN elapsedTimes' /\ elapsedTimes'[l] = elapsedTimes[l]]_vars

\* The indicator the rank-delta rule gives the label at 0-based position index.
RankDelta(shown, index) ==
    LET p == IndexOf(shown.prevRankings, shown.rankings[index + 1])
    IN  IF p > index THEN "up"
        ELSE IF p # 0 - 1 /\ p < index THEN "down"
        ELSE "none"

\* C11 as claimed: in every render the label at position i of the rankings
\* shows 'up' when its position p in prevRankings is greater than i, 'down'
\* when it is found there at a smaller position, and no indicator when p = i
\* or the label is not in prevRankings (an empty prevRankings included).
C11_RankDeltaIndicator ==
    /\ mounted =>
          \A i \in 1..Len(rankings) :
              Shown(W).arrow[i] = RankDelta(Shown(W), i - 1)
    /\ \A k \in 1..Len(h.shown) :
          \A i \in 1..Len(h.shown[k].rankings) :
              h.shown[k].arrow[i] = RankDelta(h.shown[k], i - 1)

\* C12 as claimed: the speed setter given a value <= 0 and the cycloid
\* parameter setter given a value outside [0, 1] (tenths: outside 0..10) leave
\* the component as it was, so that the speed and every curve time stay
\* positive.
C12_SettersRejectInvalid ==
    mounted =>
        /\ \A value \in {0 - 5, 0} :
              /\ Commit(W, setAnimationSpeed(W, value)) = W
              /\ Commit(W, setAnimationSpeed(W, value)).animationSpeed > 0
        /\ \A value \in {0 - 15, 0 - 1, 11} :
              /\ Commit(W, setCycloidParameter(W, value)) = W
              /\ \A l \in LabelSet :
                    CurveTime(l, Commit(W, setCycloidParameter(W, value)).cycloidParameter) > 0

\* C13 as claimed: a frame that runs while running with a timestamp earlier
\* than lastTimestampRef counts a delta of zero: the elapsed time it computes
\* and the pausedElapsedTime it leaves are not smaller than pausedElapsedTime
\* was.
C13_BackwardClockClamped ==
    \A f \in frames :
        animationState = "running" /\ lastTimestampRef # Null =>
            \A timestamp \in {lastTimestampRef - 500} :
                /\ FrameElapsed(f, timestamp) >= pausedElapsedTime
                /\ RunFrame(W, f, timestamp).pausedElapsedTime >= pausedElapsedTime

\* The renders of a step, each after the one it replaced: the render the step
\* started from, then those the step committed.
Rendered == <<Shown(W)>> \o h'.shown

\* a comes before b in list.
Before(list, a, b) ==
    /\ IndexOf(list, a) # 0 - 1
    /\ IndexOf(list, b) # 0 - 1
    /\ IndexOf(list, a) < IndexOf(list, b)

\* C14 as claimed: two labels whose distances are equal in a render stand in
\* its rankings in the relative order they had in the rankings of the render
\* before, not in the order the curves are defined in (Reset, after which
\* there is to be no earlier ranking, aside).
C14_TieStability ==
    [][\A k \in 1..Len(h'.shown) :
          \A a, b \in LabelSet :
              /\ h'.op # "Reset"
              /\ Rendered[k + 1].distanceToEnd[a] = Rendered[k + 1].distanceToEnd[b]
              /\ Before(Rendered[k].rankings, a, b)
              => Before(Rendered[k + 1].rankings, a, b)]_vars

\* list holds every label once.
IsPermutation(list) ==
    /\ Len(list) = Cardinality(LabelSet)
    /\ {list[i] : i \in 1..Len(list)} = LabelSet

\* list is in non-decreasing order of dist.
SortedByDistance(list, dist) ==
    \A i, j \in 1..Len(list) : i < j => dist[list[i]] <= dist[list[j]]

\* C15: the rankings of every render hold every label once, in non-decreasing
\* order of the distances of that render; and those distances are the curves'
\* distances to (1, 1) at progress min(elapsed / time, 1) for the elapsed time
\* of the evaluation that published them: the one a frame computes, and
\* pausedElapsedTime for the redraw of an idle or paused component.
C15_RankingsSortedPermutation ==
    /\ [](/\ IsPermutation(rankings)
          /\ SortedByDistance(rankings, distanceToEnd)
          /\ \A k \in 1..Len(h.shown) :
                /\ IsPermutation(h.shown[k].rankings)
                /\ SortedByDistance(h.shown[k].rankings, h.shown[k].distanceToEnd)
          /\ animationState # "running" \/ h.op = "Tick" =>
                distanceToEnd = DistanceData(Closure(W), pausedElapsedTime))
    /\ [][h'.op = "Tick" =>
            \A f \in frames :
                /\ h'.shown[1].distanceToEnd = DistanceData(f.cl, FrameElapsed(f, now'))
                /\ h'.shown[1].rankings
                      = NewRankings(DistanceData(f.cl, FrameElapsed(f, now')))]_vars

\* A frame of a running animation published rankings that are not in the order
\* the curves are defined in, over distances that all differ.
C15_Witness ==
    /\ h.op = "Tick" /\ animationState = "running"
    /\ rankings # Labels
    /\ \A a, b \in LabelSet : a # b => distanceToEnd[a] # distanceToEnd[b]

\* C16: from each render to the next, when the rankings differ prevRankings is
\* the rankings of the render before, and when they are the same prevRankings
\* is unchanged too.
C16_PrevRankingsArchive ==
    [][\A k \in 1..Len(h'.shown) :
          IF Rendered[k + 1].rankings # Rendered[k].rankings
          THEN Rendered[k + 1].prevRankings = Rendered[k].rankings
          ELSE Rendered[k + 1].prevRankings = Rendered[k].prevRankings]_vars

\* A frame changed the rankings for the second time in a run and archived the
\* ordering the first change had published.
C16_Witness ==
    /\ h.op = "Tick" /\ animationState = "running"
    /\ prevRankings # <<>> /\ prevRankings # Labels
    /\ rankings # prevRankings

\* C17 as claimed: the distances and rankings the completing frame published
\* are the ones the component settles with, and they stay as they are while
\* the complete flag stays set; no redraw replaces them with values for an
\* earlier elapsed time.
C17_FinalSnapshotRetained ==
    /\ [](h.op = "Tick" /\ isAnimationComplete =>
              /\ distanceToEnd = h.shown[1].distanceToEnd
              /\ rankings = h.shown[1].rankings)
    /\ [][isAnimationComplete /\ isAnimationComplete' =>
              /\ distanceToEnd' = distanceToEnd
              /\ rankings' = rankings]_vars

\* C18 as claimed: a frame that runs starts from the pausedElapsedTime the
\* frame before it left, and what the frames of a run added up to is
\* pausedElapsedTime: no frame's delta is dropped or counted twice.
C18_TicksSequential ==
    /\ \A f \in frames : f.cl.pausedElapsedTime = pausedElapsedTime
    /\ h.ticked = pausedElapsedTime

\* C19: in every state at most one frame callback is pending, and one is
\* pending only while the animation is running.
C19_SingleScheduledFrame ==
    /\ Cardinality(frames) <= 1
    /\ frames # {} => animationState = "running"

\* A frame ran, requested the next one and made the effect run again, and one
\* frame is pending.
C19_Witness ==
    /\ h.op = "Tick" /\ h.from = "running" /\ animationState = "running"
    /\ h.ticked > 0 /\ Cardinality(frames) = 1

\* C20 as claimed: the first frame after Start or Resume, which finds no last
\* timestamp, adds nothing to pausedElapsedTime; every later frame of a
\* running animation adds (timestamp - lastTimestampRef) * animationSpeed / 1000
\* at the speed set when it runs; each records its timestamp in
\* lastTimestampRef.
C20_ClockAdvanceLaw ==
    [][h'.op = "Tick" =>
          /\ lastTimestampRef' = now'
          /\ pausedElapsedTime' = pausedElapsedTime +
                (IF lastTimestampRef = Null \/ startTimeRef = Null
                 THEN 0
                 ELSE (now' - lastTimestampRef) * animationSpeed)]_vars

C23_PausedLeftOnlyByControls ==
    /\ [][animationState = "paused" /\ h'.op \in {"SetSpeed", "SetCycloid", "Wait"} =>
              animationState' = "paused" /\ ~isAnimationComplete']_vars
    /\ [][~isAnimationComplete /\ isAnimationComplete' =>
              h'.op = "Tick" /\ animationState = "running"]_vars

\* C24: in every state the complete flag is set only while the animation is
\* idle, never while it is running or paused, and after Reset the component is
\* idle with the flag clear, as a component that never ran.
C24_CompleteImpliesIdle ==
    /\ isAnimationComplete => animationState = "idle"
    /\ h.op = "Reset" =>
          /\ animationState = "idle"
          /\ isAnimationComplete = Mounted.isAnimationComplete

\* A paused run was completed by the redraw after a slider move: the flag is
\* set and the animation idle.
C24_Witness ==
    /\ h.op = "SetCycloid" /\ h.from = "paused"
    /\ isAnimationComplete /\ animationState = "idle"

====
